---- MODULE Spec2Model ----
(***************************************************************************)
(* Model of the bowdoin-menus script: meal-period resolution, request      *)
(* building, the retrying HTTP helpers, menu parsing and formatting, and   *)
(* a run of the script with its closed-state file.                         *)
(*                                                                         *)
(* Two generations of the code live side by side in the repository:        *)
(*   - models.py / api/menu.py / menu_formatter.py : the table-driven      *)
(*     resolver and the callers that unpack its result,                    *)
(*   - driver.py : the single-file script with the nested-conditional      *)
(*     resolver and its own build_request.                                 *)
(* Both are modelled.  A Python return value is modelled as the tuple of   *)
(* the values returned: `return "brunch"` is <<"brunch">>, a pair          *)
(* `return "brunch", 1` would be <<"brunch", 1>>.                          *)
(***************************************************************************)
EXTENDS Integers, Sequences, FiniteSets, TLC

VARIABLES
    now,    \* the wall clock: [date |-> day number, hour |-> 0..23]
    ret,    \* the last completed call: its inputs as read, and what it returned
    minute, \* the wall clock's minute of the hour
    prev,   \* the call completed before ret, or the run completed before run
    arg,    \* the argument that a function under study is applied to
    closed_state_file,  \* whether the file CLOSED_STATE_FILE exists
    run,    \* what the last run of the script did
    poll    \* poll_message_for_likes: its local state and its last iteration

vars == <<now, ret, minute, prev, arg, closed_state_file, run, poll>>

\* What the calls of the hour-granular specification leave alone.
others == <<minute, prev>>

\* What only a run of the script or a function under study touches.
script == <<arg, closed_state_file, run, poll>>

----------------------------------------------------------------------------
(* Bounds *)

\* Day numbers run 0..MaxDate; day 0 is a Monday.
MaxDate == 7

----------------------------------------------------------------------------
(* models.py: Location, Meals *)

MOULTON == 48
THORNE == 49

Location == {MOULTON, THORNE}

BREAKFAST == "breakfast"
BRUNCH == "brunch"
LUNCH == "lunch"
DINNER == "dinner"

\* Python's None
None == "None"

\* datetime.datetime.now(): any instant of the modelled calendar
Hours == 0 .. 23

\* now.strftime("%a").lower()
DayNames == <<"mon", "tue", "wed", "thu", "fri", "sat", "sun">>

strftime_a(date) == DayNames[(date % 7) + 1]

----------------------------------------------------------------------------
(* models.py: the schedule table of Meals.get_upcoming_meal                *)
(*                                                                         *)
(* A rule is the tuple (hour_check, special_check, special_meal,           *)
(* default_meal).  hour_check is a lambda that tests the hour against one  *)
(* or two half-open ranges: it is modelled by the set of its <<lo, hi>>    *)
(* ranges, applied by HourCheck.  special_check is either None or the      *)
(* lambda day: day == "fri": it is modelled by the day it compares with.   *)

Rule(ranges, special_check, special_meal, default_meal) ==
    [hour_check |-> ranges, special_check |-> special_check,
     special_meal |-> special_meal, default_meal |-> default_meal]

\* Mutant of HourCheck: the upper bound of a range taken inclusive.
HourCheck_inclusive(rule, hour) ==
    \E r \in rule.hour_check : r[1] <= hour /\ hour <= r[2]

\* lambda hour: lo <= hour < hi   (or ... or lo2 <= hour < hi2)
HourCheck(rule, hour) ==
    \E r \in rule.hour_check : r[1] <= hour /\ hour < r[2]

\* `special_check and special_check(day_of_week_short)`
SpecialCheck(rule, day) ==
    rule.special_check # None /\ day = rule.special_check

\* `for ... in rules: if hour_check(h): ... return`: the index of the first
\* rule whose hour_check is true, 0 when the loop falls through.
FirstMatch(rules, h) ==
    IF \E i \in 1 .. Len(rules) : HourCheck(rules[i], h)
    THEN CHOOSE i \in 1 .. Len(rules) :
            /\ HourCheck(rules[i], h)
            /\ \A j \in 1 .. (i - 1) : ~HourCheck(rules[j], h)
    ELSE 0

\* Mutant of MoultonWeekdayRules: dinner ends an hour early, hour 18 is in no range.
MoultonWeekdayRules_gap ==
    << Rule({<<0, 10>>}, None, None, BREAKFAST),
       Rule({<<19, 24>>}, "fri", BRUNCH, BREAKFAST),
       Rule({<<10, 14>>}, None, None, LUNCH),
       Rule({<<14, 18>>}, None, None, DINNER) >>

\* schedule[Location.MOULTON][True]
MoultonWeekdayRules ==
    << Rule({<<0, 10>>}, None, None, BREAKFAST),
       Rule({<<19, 24>>}, "fri", BRUNCH, BREAKFAST),
       Rule({<<10, 14>>}, None, None, LUNCH),
       Rule({<<14, 19>>}, None, None, DINNER) >>

\* schedule[Location.MOULTON][False]
MoultonWeekendRules ==
    << Rule({<<0, 13>>, <<19, 24>>}, None, None, BRUNCH),
       Rule({<<13, 19>>}, None, None, DINNER) >>

\* Mutant of ThorneWeekdayRules: lunch starts an hour early, hour 9 is in two ranges.
ThorneWeekdayRules_overlap ==
    << Rule({<<0, 10>>}, None, None, BREAKFAST),
       Rule({<<20, 24>>}, "fri", BRUNCH, BREAKFAST),
       Rule({<<9, 14>>}, None, None, LUNCH),
       Rule({<<14, 20>>}, None, None, DINNER) >>

\* schedule[Location.THORNE][True]
ThorneWeekdayRules ==
    << Rule({<<0, 10>>}, None, None, BREAKFAST),
       Rule({<<20, 24>>}, "fri", BRUNCH, BREAKFAST),
       Rule({<<10, 14>>}, None, None, LUNCH),
       Rule({<<14, 20>>}, None, None, DINNER) >>

\* schedule[Location.THORNE][False]
ThorneWeekendRules ==
    << Rule({<<0, 14>>, <<20, 24>>}, None, None, BRUNCH),
       Rule({<<14, 20>>}, None, None, DINNER) >>

schedule ==
    [location \in Location |->
        [is_weekday \in BOOLEAN |->
            IF location = MOULTON
            THEN (IF is_weekday THEN MoultonWeekdayRules ELSE MoultonWeekendRules)
            ELSE (IF is_weekday THEN ThorneWeekdayRules ELSE ThorneWeekendRules)]]

\* The loop of lines 131-137 over a rule list, and the fall-through of lines
\* 139-147: the value returned, the index of the rule that returned (0 after
\* the loop) and whether logger.warning ran.
Evaluate(rules, h, day_of_week_short) ==
    LET i == FirstMatch(rules, h)
    IN  [value |-> IF i = 0 THEN <<BREAKFAST>>
                   ELSE IF SpecialCheck(rules[i], day_of_week_short)
                        THEN <<rules[i].special_meal>>
                        ELSE <<rules[i].default_meal>>,
         rule |-> i,
         warned |-> (i = 0)]

\* Mutant of get_upcoming_meal: a time past the full hour counts as the next hour.
get_upcoming_meal_roundup(location, t) ==
    LET h == IF t.minute > 0 THEN t.hour + 1 ELSE t.hour
        day_of_week_short == strftime_a(t.date)
        is_weekday == day_of_week_short \notin {"sat", "sun"}
        rules == schedule[location][is_weekday]
    IN  [location |-> location, hour |-> t.hour, day |-> day_of_week_short]
            @@ Evaluate(rules, h, day_of_week_short)

\* Meals.get_upcoming_meal of models.py, called at the instant t (one now()
\* call, line 36).  The record holds the inputs as read and what Evaluate
\* returned.
get_upcoming_meal(location, t) ==
    LET h == t.hour
        day_of_week_short == strftime_a(t.date)
        is_weekday == day_of_week_short \notin {"sat", "sun"}
        rules == schedule[location][is_weekday]
    IN  [location |-> location, hour |-> h, day |-> day_of_week_short]
            @@ Evaluate(rules, h, day_of_week_short)

----------------------------------------------------------------------------
(* driver.py: Meals.get_upcoming_meal, the nested conditionals.            *)
(* line is the source line of the return statement that was taken.         *)

DriverReturn(meal, line) == [value |-> <<meal>>, line |-> line]

\* No return statement of a block was taken: control falls out of the block.
FallThrough == [value |-> <<>>, line |-> 0]

DriverMoulton(current_hour, current_day) ==
    LET late == 19 <= current_hour /\ current_hour < 24
        weekday ==
            IF (0 <= current_hour /\ current_hour < 10) \/ late
            THEN IF current_day = "fri" /\ late
                 THEN DriverReturn(BRUNCH, 160)
                 ELSE DriverReturn(BREAKFAST, 162)
            ELSE IF 10 <= current_hour /\ current_hour < 14
            THEN DriverReturn(LUNCH, 165)
            ELSE IF 14 <= current_hour /\ current_hour < 19
            THEN DriverReturn(DINNER, 168)
            ELSE FallThrough
        weekend ==
            IF (0 <= current_hour /\ current_hour < 11) \/ late
            THEN IF current_day = "sun" /\ late
                 THEN DriverReturn(BREAKFAST, 175)
                 ELSE DriverReturn(BRUNCH, 176)
            ELSE IF 11 <= current_hour /\ current_hour < 13
            THEN DriverReturn(LUNCH, 179)
            ELSE IF 13 <= current_hour /\ current_hour < 19
            THEN DriverReturn(DINNER, 182)
            ELSE FallThrough
    IN  IF current_day \notin {"sat", "sun"} THEN weekday ELSE weekend

DriverThorne(current_hour, current_day) ==
    LET late == 20 <= current_hour /\ current_hour < 24
        weekday ==
            IF (0 <= current_hour /\ current_hour < 10) \/ late
            THEN IF current_day = "fri" /\ late
                 THEN DriverReturn(BRUNCH, 190)
                 ELSE DriverReturn(BREAKFAST, 192)
            ELSE IF 10 <= current_hour /\ current_hour < 14
            THEN DriverReturn(LUNCH, 195)
            ELSE IF 14 <= current_hour /\ current_hour < 20
            THEN DriverReturn(DINNER, 198)
            ELSE FallThrough
        weekend ==
            IF (0 <= current_hour /\ current_hour < 14) \/ late
            THEN IF current_day = "sun" /\ late
                 THEN DriverReturn(BREAKFAST, 205)
                 ELSE DriverReturn(BRUNCH, 206)
            ELSE IF 14 <= current_hour /\ current_hour < 20
            THEN DriverReturn(DINNER, 209)
            ELSE FallThrough
    IN  IF current_day \notin {"sat", "sun"} THEN weekday ELSE weekend

\* The whole method: the two location blocks, then the fallback of line 213.
\* current_hour and current_day come from two separate now() calls, so they
\* are two inputs.
driver_get_upcoming_meal(location, current_hour, current_day) ==
    LET r == IF location = MOULTON THEN DriverMoulton(current_hour, current_day)
             ELSE IF location = THORNE THEN DriverThorne(current_hour, current_day)
             ELSE FallThrough
        out == IF r = FallThrough THEN DriverReturn(BREAKFAST, 213) ELSE r
    IN  [location |-> location, hour |-> current_hour, day |-> current_day,
         value |-> out.value, line |-> out.line]

----------------------------------------------------------------------------
(* The clock *)

\* The instant one hour after t.
NextHour(t) ==
    IF t.hour = 23 THEN [date |-> t.date + 1, hour |-> 0]
    ELSE [date |-> t.date, hour |-> t.hour + 1]

\* What a second now() call, made right after one that returned t, can return:
\* the same hour, or the next one when the hour turned between the two calls.
LaterRead(t) == {t} \cup {u \in {NextHour(t)} : u.date <= MaxDate}

----------------------------------------------------------------------------
(* api/menu.py: build_request *)

\* `meal_name_str, date_offset_as_int = <value>` (line 33).  A pair unpacks
\* into its two items.  A bare str is iterated character by character: it
\* unpacks only when it has exactly two characters, and any other length
\* raises ValueError.
Unpack2(value) ==
    IF Len(value) = 2 THEN "pair"
    ELSE IF Len(value) = 1 /\ Len(value[1]) = 2 THEN "chars"
    ELSE "ValueError"

\* build_request(location_int): now() is read at line 30 (t1), then the
\* resolver reads the clock itself (t2).  raised is the exception that left
\* the function (None: it returned), request the returned dict if any.
build_request(location_int, t1, t2) ==
    LET r == get_upcoming_meal(location_int, t2)
        how == Unpack2(r.value)
    IN  [location |-> location_int, today |-> t1.date,
         hour |-> r.hour, day |-> r.day, resolved |-> r.value,
         raised |-> IF how = "pair" THEN None
                    ELSE IF how = "chars" THEN "TypeError"  \* timedelta(days=<str>)
                    ELSE "ValueError",
         request |-> IF how = "pair"
                     THEN << [unit |-> location_int,
                              date |-> t1.date + r.value[2],
                              meal |-> r.value[1]] >>
                     ELSE << >>]

----------------------------------------------------------------------------
(* driver.py: build_request *)

\* `meal = Meals().get_upcoming_meal(location)`: the whole returned value.
Whole(value) == IF Len(value) = 1 THEN value[1] ELSE value

\* current_date is read first (t1, line 220); the resolver then reads the hour
\* and the day.  The request always carries current_date.
driver_build_request(location, t1, current_hour, current_day) ==
    LET r == driver_get_upcoming_meal(location, current_hour, current_day)
    IN  [location |-> location, today |-> t1.date,
         hour |-> r.hour, day |-> r.day, resolved |-> r.value,
         raised |-> None,
         request |-> << [unit |-> location,
                         date |-> t1.date,
                         meal |-> Whole(r.value)] >>]

----------------------------------------------------------------------------
(* Specification *)

NoCall == [op |-> "none"]

NoArg == [none |-> TRUE]

NoRun == [op |-> "none"]

NoPoll == [op |-> "none"]

\* No function under study has an argument and the script has not run.
Idle ==
    /\ arg = NoArg
    /\ closed_state_file = FALSE
    /\ run = NoRun
    /\ poll = NoPoll

Init ==
    /\ now \in [date : 0 .. 6, hour : Hours]
    /\ ret = NoCall
    /\ minute = 0
    /\ prev = NoCall
    /\ Idle

\* Wall-clock time passes.
Tick ==
    /\ NextHour(now).date <= MaxDate
    /\ now' = NextHour(now)
    /\ UNCHANGED <<ret, others, script>>

\* A call of models.py Meals().get_upcoming_meal(location).
CallGetUpcomingMeal ==
    \E location \in Location :
        /\ ret' = [op |-> "get_upcoming_meal"] @@ get_upcoming_meal(location, now)
        /\ UNCHANGED <<now, others, script>>

\* A call of driver.py Meals().get_upcoming_meal(location).
CallDriverGetUpcomingMeal ==
    \E location \in Location, t2 \in LaterRead(now) :
        /\ ret' = [op |-> "driver_get_upcoming_meal"]
                    @@ driver_get_upcoming_meal(location, now.hour, strftime_a(t2.date))
        /\ now' = t2
        /\ UNCHANGED <<others, script>>

\* A call of api/menu.py build_request(location).
CallBuildRequest ==
    \E location \in Location, t2 \in LaterRead(now) :
        /\ ret' = [op |-> "build_request"] @@ build_request(location, now, t2)
        /\ now' = t2
        /\ UNCHANGED <<others, script>>

\* A call of driver.py build_request(location).
CallDriverBuildRequest ==
    \E location \in Location, t2 \in LaterRead(now) :
        \E t3 \in LaterRead(t2) :
            /\ ret' = [op |-> "driver_build_request"]
                        @@ driver_build_request(location, now, t2.hour,
                                                strftime_a(t3.date))
            /\ now' = t3
            /\ UNCHANGED <<others, script>>

Next ==
    \/ Tick
    \/ CallGetUpcomingMeal
    \/ CallDriverGetUpcomingMeal
    \/ CallBuildRequest
    \/ CallDriverBuildRequest

Spec == Init /\ [][Next]_vars

----------------------------------------------------------------------------
(* The resolvers called at minute precision and with any location id.      *)

\* A location id that is neither Location.MOULTON nor Location.THORNE.
OtherLocation == 50

AnyLocation == Location \cup {OtherLocation}

\* Minutes of the hour the clock is read at.
Minutes == {0, 30, 59}

\* datetime.datetime.now() at minute precision.
Timestamp == [date |-> now.date, hour |-> now.hour, minute |-> minute]

\* models.py Meals().get_upcoming_meal(location) for any location argument:
\* schedule[location] (line 128) raises KeyError when location is no key of
\* schedule, before any rule is tried.
models_call(location, t) ==
    IF location \in DOMAIN schedule
    THEN [at |-> t, raised |-> None] @@ get_upcoming_meal(location, t)
    ELSE [at |-> t, raised |-> "KeyError", location |-> location,
          hour |-> t.hour, day |-> strftime_a(t.date),
          value |-> << >>, rule |-> 0, warned |-> FALSE]

\* driver.py Meals().get_upcoming_meal(location) for any location argument.
\* The fallback of lines 211-213 logs with logging.debug: no warning.
driver_call(location, t) ==
    [at |-> t, raised |-> None, warned |-> FALSE]
        @@ driver_get_upcoming_meal(location, t.hour, strftime_a(t.date))

InitClock ==
    /\ now \in [date : 0 .. 6, hour : Hours]
    /\ minute \in Minutes
    /\ ret = NoCall
    /\ prev = NoCall
    /\ Idle

\* Time passes within the hour.
MinutePasses ==
    /\ \E m \in Minutes : m > minute /\ minute' = m
    /\ UNCHANGED <<now, ret, prev, script>>

ResolveModelsAt ==
    \E location \in AnyLocation :
        /\ ret' = [op |-> "get_upcoming_meal"] @@ models_call(location, Timestamp)
        /\ prev' = ret
        /\ UNCHANGED <<now, minute, script>>

ResolveDriverAt ==
    \E location \in AnyLocation :
        /\ ret' = [op |-> "driver_get_upcoming_meal"] @@ driver_call(location, Timestamp)
        /\ prev' = ret
        /\ UNCHANGED <<now, minute, script>>

NextClock ==
    \/ MinutePasses
    \/ ResolveModelsAt
    \/ ResolveDriverAt

SpecClock == InitClock /\ [][NextClock]_vars

----------------------------------------------------------------------------
(* utils.py (and driver.py lines 63-84): the tenacity retry decorator of   *)
(* make_post_request and make_get_request.                                 *)

\* The network's answers to successive attempts are given for NetLen attempts.
NetLen == 4

\* stop=stop_after_attempt(3)
STOP_AFTER_ATTEMPT == 3

\* The outcome of one requests.post / requests.get call: NetError when it
\* raised a requests.exceptions.RequestException, else the status code of the
\* response it returned.
NetError == 0

StatusCodes == {200, 202, 500}

AttemptOutcome == {NetError} \cup StatusCodes

NetBehaviours == [1 .. NetLen -> AttemptOutcome]

\* Mutant of stop_after_attempt: stops one attempt late.
stop_after_attempt_late(attempt_number) == attempt_number > STOP_AFTER_ATTEMPT

\* stop_after_attempt(3)(retry_state)
stop_after_attempt(attempt_number) == attempt_number >= STOP_AFTER_ATTEMPT

\* retry_if_exception_type(requests.exceptions.RequestException)
retry_if_exception_type(outcome) == outcome = NetError

\* The retry loop from attempt attempt_number on.  An attempt that returns a
\* response ends the call with it.  An attempt that raises is retried unless
\* the stop condition holds; then tenacity raises RetryError (reraise is not
\* set), which is not a RequestException.
RECURSIVE Retrying(_, _)
Retrying(net, attempt_number) ==
    IF ~retry_if_exception_type(net[attempt_number])
    THEN [attempts |-> attempt_number, raised |-> None,
          status_code |-> net[attempt_number]]
    ELSE IF stop_after_attempt(attempt_number)
    THEN [attempts |-> attempt_number, raised |-> "RetryError",
          status_code |-> NetError]
    ELSE Retrying(net, attempt_number + 1)

make_post_request(net) == Retrying(net, 1)

make_get_request(net) == Retrying(net, 1)

InitHttp ==
    /\ now = [date |-> 0, hour |-> 0]
    /\ minute = 0
    /\ ret = NoCall
    /\ prev = NoCall
    /\ Idle

CallMakePostRequest ==
    \E net \in NetBehaviours :
        /\ ret' = [op |-> "make_post_request", net |-> net] @@ make_post_request(net)
        /\ UNCHANGED <<now, minute, prev, script>>

CallMakeGetRequest ==
    \E net \in NetBehaviours :
        /\ ret' = [op |-> "make_get_request", net |-> net] @@ make_get_request(net)
        /\ UNCHANGED <<now, minute, prev, script>>

NextHttp ==
    \/ CallMakePostRequest
    \/ CallMakeGetRequest

SpecHttp == InitHttp /\ [][NextHttp]_vars

----------------------------------------------------------------------------
(* Menus and texts.                                                        *)
(*                                                                         *)
(* A str is modelled by what the code looks at: its length, and whether    *)
(* str.strip() leaves nothing of it.  An item is None or a str; name tells *)
(* items apart.  A menu is None or a dict, modelled by the sequence of its *)
(* (category, items) entries in dict order.                                *)

\* Items per category and categories per menu of the menus that are tried.
MaxItems == 2

Item(name, len, blank) == [name |-> name, len |-> len, blank |-> blank, none |-> FALSE]

\* A record without <webLongName> gives the item None.
ItemNone == [name |-> None, len |-> 0, blank |-> TRUE, none |-> TRUE]

Items ==
    { ItemNone,
      Item("", 0, TRUE),
      Item(" ", 1, TRUE),
      Item("Tofu", 4, FALSE),
      Item("Chicken Parmesan Sub", 20, FALSE) }

\* Category keys as parse_response returns them, with their lengths.
Categories ==
    { [name |-> "Soup", emoji |-> TRUE, len |-> 6],     \* emoji, space, "Soup"
      [name |-> "Uncategorized", emoji |-> FALSE, len |-> 13] }

ItemLists == UNION { [1 .. n -> Items] : n \in 0 .. MaxItems }

MenuNone == [none |-> TRUE, entries |-> << >>]

Menu(entries) == [none |-> FALSE, entries |-> entries]

Menus ==
    {MenuNone, Menu(<< >>)}
    \cup { Menu(<< [category |-> c, items |-> l] >>) : c \in Categories, l \in ItemLists }
    \cup { Menu(<< [category |-> cd[1], items |-> l], [category |-> cd[2], items |-> k] >>) :
                cd \in {x \in Categories \X Categories : x[1] # x[2]},
                l \in ItemLists, k \in ItemLists }

\* `if item:` for an item that is None or a str
Truthy(item) == ~item.none /\ item.len > 0

\* `i and i.strip()`
Real(item) == Truthy(item) /\ ~item.blank

\* `[i for i in items if i and i.strip()]`
RECURSIVE real_items_of(_)
real_items_of(items) ==
    IF items = << >> THEN << >>
    ELSE (IF Real(Head(items)) THEN << Head(items) >> ELSE << >>)
            \o real_items_of(Tail(items))

\* The items that pass `if item:`, in order.
RECURSIVE truthy_items_of(_)
truthy_items_of(items) ==
    IF items = << >> THEN << >>
    ELSE (IF Truthy(Head(items)) THEN << Head(items) >> ELSE << >>)
            \o truthy_items_of(Tail(items))

\* The length of the lines "- {item}\n" of the items.
RECURSIVE ItemLinesLen(_)
ItemLinesLen(items) ==
    IF items = << >> THEN 0
    ELSE 2 + Head(items).len + 1 + ItemLinesLen(Tail(items))

\* `not menu`: None or the empty dict
NotMenu(menu) == menu.none \/ menu.entries = << >>

\* `any(menu.values())`: some category's list is not empty
AnyValues(menu) == \E i \in 1 .. Len(menu.entries) : menu.entries[i].items # << >>

\* loc_name and the header f"{loc_name} {meal.capitalize()} - {timestamp}:\n\n",
\* timestamp being "%d %b %Y" (11 characters).
LocNameLen(location) == IF location = MOULTON THEN 15 ELSE 8

HeaderLen(location, meal) == LocNameLen(location) + 1 + Len(meal) + 3 + 11 + 3

EmptyText == [len |-> 0, meal |-> None]

\* menu_formatter.py: the loop over the categories, which skips a category
\* without real items.
RECURSIVE FormatterBodyLen(_)
FormatterBodyLen(entries) ==
    IF entries = << >> THEN 0
    ELSE LET real_items == real_items_of(Head(entries).items)
         IN  (IF real_items = << >> THEN 0
              ELSE Head(entries).category.len + 2 + ItemLinesLen(real_items) + 1)
             + FormatterBodyLen(Tail(entries))

\* menu_formatter.py stringify(location_int, menu), the resolver being called
\* at the instant t.  Line 23 unpacks the resolver's value into two names.
stringify(location_int, menu, t) ==
    IF NotMenu(menu) \/ ~AnyValues(menu)
    THEN [raised |-> None, text |-> EmptyText]
    ELSE LET r == get_upcoming_meal(location_int, t)
             how == Unpack2(r.value)
         IN  IF how = "pair"
             THEN [raised |-> None,
                   text |-> [len |-> HeaderLen(location_int, r.value[1])
                                        + FormatterBodyLen(menu.entries),
                             meal |-> r.value[1]]]
             ELSE [raised |-> IF how = "chars" THEN None ELSE "ValueError",
                   text |-> IF how = "chars"
                            THEN [len |-> HeaderLen(location_int, "c")
                                            + FormatterBodyLen(menu.entries),
                                  meal |-> "c"]
                            ELSE EmptyText]

\* driver.py: the loop over the categories, which skips a category whose list
\* is empty and, within a category, the items that are None or "".
RECURSIVE DriverBodyLen(_)
DriverBodyLen(entries) ==
    IF entries = << >> THEN 0
    ELSE (IF Head(entries).items = << >> THEN 0
          ELSE Head(entries).category.len + 2
                + ItemLinesLen(truthy_items_of(Head(entries).items)) + 1)
         + DriverBodyLen(Tail(entries))

\* driver.py stringify(location, menu), the resolver reading current_hour and
\* current_day.
driver_stringify(location, menu, current_hour, current_day) ==
    IF menu.none THEN [raised |-> None, text |-> EmptyText]
    ELSE IF ~AnyValues(menu) THEN [raised |-> None, text |-> EmptyText]
    ELSE LET meal == Whole(driver_get_upcoming_meal(location, current_hour,
                                                    current_day).value)
         IN  [raised |-> None,
              text |-> [len |-> HeaderLen(location, meal) + DriverBodyLen(menu.entries),
                        meal |-> meal]]

\* The menu that stringify is applied to is any of Menus.
InitStringify ==
    /\ now = [date |-> 0, hour |-> 12]
    /\ minute = 0
    /\ ret = NoCall
    /\ prev = NoCall
    /\ arg \in Menus
    /\ closed_state_file = FALSE
    /\ run = NoRun
    /\ poll = NoPoll

CallStringify ==
    \E location \in Location :
        /\ ret' = [op |-> "stringify", location |-> location, menu |-> arg]
                    @@ stringify(location, arg, now)
        /\ UNCHANGED <<now, minute, prev, script>>

CallDriverStringify ==
    \E location \in Location :
        /\ ret' = [op |-> "driver_stringify", location |-> location, menu |-> arg]
                    @@ driver_stringify(location, arg, now.hour, strftime_a(now.date))
        /\ UNCHANGED <<now, minute, prev, script>>

NextStringify ==
    \/ CallStringify
    \/ CallDriverStringify

SpecStringify == InitStringify /\ [][NextStringify]_vars

----------------------------------------------------------------------------
(* parse_response.                                                         *)
(*                                                                         *)
(* A payload is modelled by what the parser finds in it: whether it is     *)
(* well-formed XML, whether it holds an <error> element, and its <record>  *)
(* elements in document order, each with the text of its <course> (or      *)
(* Absent) and of its <webLongName> (or ItemNone).                         *)

\* Records per payload.
MaxRecords == 3

Absent == "absent"

Courses == {"Main Course", "Desserts", "Soup", Absent}

RawItems ==
    { ItemNone,
      Item("Tofu", 4, FALSE),
      Item("Grilled  Chicken", 16, FALSE) }

Records == [course : Courses, item : RawItems]

RecordLists == UNION { [1 .. n -> Records] : n \in 0 .. MaxRecords }

Malformed == [wellformed |-> FALSE, error |-> FALSE, records |-> << >>]

Payloads ==
    {Malformed} \cup [wellformed : {TRUE}, error : BOOLEAN, records : RecordLists]

\* re.sub(r"\s+", " ", item) on the items of RawItems
re_sub(item) ==
    IF item.name = "Grilled  Chicken" THEN Item("Grilled Chicken", 15, FALSE) ELSE item

\* extract_records: the course of a record, default when it has no <course>
course_text(record, default) ==
    IF record.course = Absent THEN default ELSE record.course

\* The cleaned item that build_menu puts in the menu.
cleaned(item) == IF Truthy(item) THEN re_sub(item) ELSE item

\* A variant that puts each item in front of its course's list.
RECURSIVE course_items_prepend(_, _, _)
course_items_prepend(records, course, default) ==
    IF records = << >> THEN << >>
    ELSE course_items_prepend(Tail(records), course, default)
            \o (IF course_text(Head(records), default) = course
                THEN << cleaned(Head(records).item) >> ELSE << >>)

\* build_menu: what `menu[course_values[idx]].append(item)` over the records
\* leaves in menu[course].
RECURSIVE course_items(_, _, _)
course_items(records, course, default) ==
    IF records = << >> THEN << >>
    ELSE (IF course_text(Head(records), default) = course
          THEN << cleaned(Head(records).item) >> ELSE << >>)
            \o course_items(Tail(records), course, default)

\* set(course_values)
course_set(records, default) ==
    { course_text(records[i], default) : i \in 1 .. Len(records) }

\* The orders in which `for key in set(course_values)` can yield the keys.
SetOrders(S) ==
    { order \in [1 .. Cardinality(S) -> S] :
        \A i, j \in 1 .. Cardinality(S) : order[i] = order[j] => i = j }

\* build_menu: the dict as the sequence of its entries; order is the
\* iteration order of set(course_values).
build_menu(records, order, default) ==
    [i \in 1 .. Len(order) |->
        [category |-> order[i], items |-> course_items(records, order[i], default)]]

custom_order == <<"Main Course", "Desserts">>

InCustomOrder(key) == \E i \in 1 .. Len(custom_order) : custom_order[i] = key

\* The keys that get an emoji prefix, with the prefix's length.
emoji_map == [key \in {"Main Course", "Desserts", "Soup"} |->
                IF key = "Main Course" THEN 2 ELSE 1]

emoji_key(key) ==
    IF key \in DOMAIN emoji_map
    THEN [name |-> key, emoji |-> TRUE, len |-> emoji_map[key] + 1 + Len(key)]
    ELSE [name |-> key, emoji |-> FALSE, len |-> Len(key)]

\* sort_and_emoji_menu: custom_order first, then the other keys; None when
\* no list has an item; then each key of emoji_map is popped and put back,
\* prefixed, at the end of the dict.
sort_and_emoji_menu(menu) ==
    LET has(key) == \E i \in 1 .. Len(menu) : menu[i].category = key
        entry(key) == menu[CHOOSE i \in 1 .. Len(menu) : menu[i].category = key]
        first == SelectSeq(custom_order, has)
        sorted_menu ==
            [i \in 1 .. Len(first) |-> entry(first[i])]
                \o SelectSeq(menu, LAMBDA e : ~InCustomOrder(e.category))
        renamed(e) == [category |-> emoji_key(e.category), items |-> e.items]
        kept == SelectSeq(sorted_menu, LAMBDA e : e.category \notin DOMAIN emoji_map)
        moved == SelectSeq(sorted_menu, LAMBDA e : e.category \in DOMAIN emoji_map)
    IN  IF \A i \in 1 .. Len(sorted_menu) : sorted_menu[i].items = << >>
        THEN MenuNone
        ELSE Menu([i \in 1 .. Len(kept) + Len(moved) |->
                    IF i <= Len(kept) THEN renamed(kept[i])
                    ELSE renamed(moved[i - Len(kept)])])

\* api/menu.py parse_response(request_content); order is the iteration order
\* of set(course_values).
parse_response(request_content, order) ==
    IF ~request_content.wellformed THEN [raised |-> None, menu |-> MenuNone]
    ELSE IF request_content.error THEN [raised |-> None, menu |-> MenuNone]
    ELSE [raised |-> None,
          menu |-> sort_and_emoji_menu(
                      build_menu(request_content.records, order, "Uncategorized Course"))]

\* driver.py parse_response(request_content)
driver_parse_response(request_content, order) ==
    IF ~request_content.wellformed THEN [raised |-> None, menu |-> MenuNone]
    ELSE IF request_content.error THEN [raised |-> None, menu |-> MenuNone]
    ELSE [raised |-> None,
          menu |-> sort_and_emoji_menu(
                      build_menu(request_content.records, order, "Uncategorized"))]

\* The payload that parse_response is applied to is any of Payloads.
InitParse ==
    /\ now = [date |-> 0, hour |-> 12]
    /\ minute = 0
    /\ ret = NoCall
    /\ prev = NoCall
    /\ arg \in Payloads
    /\ closed_state_file = FALSE
    /\ run = NoRun
    /\ poll = NoPoll

CallParseResponse ==
    \E order \in SetOrders(course_set(arg.records, "Uncategorized Course")) :
        /\ ret' = [op |-> "parse_response", content |-> arg, default |-> "Uncategorized Course"]
                    @@ parse_response(arg, order)
        /\ UNCHANGED <<now, minute, prev, script>>

CallDriverParseResponse ==
    \E order \in SetOrders(course_set(arg.records, "Uncategorized")) :
        /\ ret' = [op |-> "driver_parse_response", content |-> arg, default |-> "Uncategorized"]
                    @@ driver_parse_response(arg, order)
        /\ UNCHANGED <<now, minute, prev, script>>

NextParse ==
    \/ CallParseResponse
    \/ CallDriverParseResponse

SpecParse == InitParse /\ [][NextParse]_vars

----------------------------------------------------------------------------
(* The functions that call the menu, now-playing and chat services.        *)
(*                                                                         *)
(* A function's outcome is [raised |-> the exception that leaves it, or    *)
(* None] with the value it returns.  tenacity raises RetryError when the   *)
(* last attempt failed; RetryError is not a RequestException.              *)

AllFail == [i \in 1 .. NetLen |-> NetError]

Answers(status_code) == [i \in 1 .. NetLen |-> status_code]

\* `except requests.exceptions.RequestException`
IsRequestException(raised) == raised = "RequestException"

\* Whether the handler `except requests.exceptions.RequestException` of the
\* calling function catches what make_post_request / make_get_request raise.
CaughtByRequestHandler(raised) == IsRequestException(raised)

\* request(location): the content of a 200 response, else None
request(net, content) ==
    LET response == make_post_request(net)
    IN  IF response.raised # None
        THEN [raised |-> IF CaughtByRequestHandler(response.raised)
                         THEN None ELSE response.raised,
              none |-> TRUE, content |-> Malformed]
        ELSE IF response.status_code = 200
        THEN [raised |-> None, none |-> FALSE, content |-> content]
        ELSE [raised |-> None, none |-> TRUE, content |-> Malformed]

\* send_message(message_text): the response (whose truth value is
\* status_code < 400), or None
send_message(net) ==
    LET response == make_post_request(net)
    IN  IF response.raised # None
        THEN [raised |-> IF CaughtByRequestHandler(response.raised)
                         THEN None ELSE response.raised,
              none |-> TRUE, status_code |-> NetError]
        ELSE [raised |-> None, none |-> FALSE, status_code |-> response.status_code]

ELAPSED_MAX == 900

\* Bodies of a 200 response of /spins.
SpinBodies ==
    { [kind |-> k, elapsed |-> 0] :
        k \in {"invalid json", "no items", "no song", "bad start", "no start"} }
    \cup { [kind |-> "spin", elapsed |-> e] : e \in {ELAPSED_MAX, ELAPSED_MAX + 1} }

NoSpin == [kind |-> "no items", elapsed |-> 0]

\* get_current_spin_details(): the spin's details, or None.  Without "start"
\* the default 0 is handed to strptime, which raises TypeError.
get_current_spin_details(net, body) ==
    LET response == make_get_request(net)
        none == [none |-> TRUE, elapsed |-> 0]
    IN  IF response.raised # None
        THEN [raised |-> IF CaughtByRequestHandler(response.raised)
                         THEN None ELSE response.raised] @@ none
        ELSE IF response.status_code # 200 THEN [raised |-> None] @@ none
        ELSE IF body.kind \in {"invalid json", "no items", "no song", "bad start"}
        THEN [raised |-> None] @@ none
        ELSE IF body.kind = "no start" THEN [raised |-> "TypeError"] @@ none
        ELSE [raised |-> None, none |-> FALSE, elapsed |-> body.elapsed]

\* Bodies of a 200 response of /playlists.
PlaylistBodies ==
    { [kind |-> "no items", automation |-> FALSE, persona_id |-> FALSE] }
    \cup [kind : {"playlist"}, automation : BOOLEAN, persona_id : BOOLEAN]

NoPlaylist == [kind |-> "no items", automation |-> FALSE, persona_id |-> FALSE]

\* get_current_playlist_details(): title, persona_id and automation, or None
get_current_playlist_details(net, body) ==
    LET response == make_get_request(net)
        none == [none |-> TRUE, automation |-> FALSE, persona_id |-> FALSE]
    IN  IF response.raised # None
        THEN [raised |-> IF CaughtByRequestHandler(response.raised)
                         THEN None ELSE response.raised] @@ none
        ELSE IF response.status_code # 200 \/ body.kind = "no items"
        THEN [raised |-> None] @@ none
        ELSE [raised |-> None, none |-> FALSE,
              automation |-> body.automation, persona_id |-> body.persona_id]

\* get_persona_name(p_id): the name, or None
get_persona_name(net) ==
    LET response == make_get_request(net)
    IN  IF response.raised # None
        THEN [raised |-> IF CaughtByRequestHandler(response.raised)
                         THEN None ELSE response.raised, none |-> TRUE]
        ELSE [raised |-> None, none |-> response.status_code # 200]

----------------------------------------------------------------------------
(* A run of the script: driver.py's `if __name__ == "__main__":` block.    *)

MAX_TEXT == 1000

CLOSED_MESSAGE_LEN == 42

SONG_INFO_BASE == 81

ErrorPayload == [wellformed |-> TRUE, error |-> TRUE, records |-> << >>]

\* A payload with one record, of an item of the given length.
OneItem(len) ==
    [wellformed |-> TRUE, error |-> FALSE,
     records |-> << [course |-> Absent, item |-> Item("item", len, FALSE)] >>]

\* With 4 both halls' texts are short; with 942 Thorne's is 992 and Moulton's
\* 999 characters; with 950 Thorne's is 1000.
RunPayloads == {ErrorPayload} \cup { OneItem(len) : len \in {4, 942, 950} }

\* What a service does during a run: how its attempts go, and what a 200
\* response holds.
MenuService ==
    [net : {AllFail, Answers(500)}, content : {ErrorPayload}]
    \cup [net : {Answers(200)}, content : RunPayloads]

SpinService ==
    [net : {AllFail, Answers(500)}, body : {NoSpin}]
    \cup [net : {Answers(200)}, body : SpinBodies]

PlaylistService ==
    [net : {AllFail, Answers(500)}, body : {NoPlaylist}]
    \cup [net : {Answers(200)}, body : PlaylistBodies]

PersonaService == {AllFail, Answers(500), Answers(200)}

\* The chat service, for the first and the second send_message of a run.
ChatService == [1 .. 2 -> {AllFail, Answers(202), Answers(500)}]

Worlds ==
    [thorne : MenuService, moulton : MenuService, spins : SpinService,
     playlists : PlaylistService, personas : PersonaService, chat : ChatService]

\* A variant that takes a spin of any age.
recent_any(elapsed) == elapsed >= 0

\* `now_playing["elapsed"] <= 900`
recent(elapsed) == elapsed <= ELAPSED_MAX

\* The song info of lines 562-605: its length, and the exception that the
\* try block caught, if any.  The names' lengths are fixed: artist 5, song 6,
\* title 9, persona 6 or "None".
song_info(world) ==
    LET now_playing == get_current_spin_details(world.spins.net, world.spins.body)
        playlist == get_current_playlist_details(world.playlists.net,
                                                 world.playlists.body)
        PERSONA_NAME == IF ~playlist.none /\ playlist.persona_id
                        THEN get_persona_name(world.personas)
                        ELSE [raised |-> None, none |-> TRUE]
        empty(caught) == [len |-> 0, caught |-> caught]
    IN  IF now_playing.raised # None THEN empty(now_playing.raised)
        ELSE IF playlist.raised # None THEN empty(playlist.raised)
        ELSE IF PERSONA_NAME.raised # None THEN empty(PERSONA_NAME.raised)
        ELSE IF now_playing.none THEN empty("AttributeError")
        ELSE IF ~playlist.none /\ playlist.automation THEN empty(None)
        ELSE IF recent(now_playing.elapsed)
        THEN IF playlist.none THEN empty("TypeError")
             ELSE [len |-> SONG_INFO_BASE + 5 + 6 + 9
                            + (IF PERSONA_NAME.none THEN Len("None") ELSE 6),
                   caught |-> None]
        ELSE empty(None)

\* One turn of the loop of lines 621-632, unless an exception has ended the
\* run: the text is handed to send_message, or reported as too long.
post(st, text, label, world) ==
    IF st.raised # None \/ text = 0 THEN st
    ELSE IF text < MAX_TEXT
    THEN LET response == send_message(world.chat[Len(st.sent) + 1])
         IN  [st EXCEPT
                !.sent = Append(@, [label |-> label, len |-> text,
                                    status_code |-> response.status_code]),
                !.raised = response.raised,
                !.failed = IF response.raised = None
                              /\ (response.none \/ response.status_code >= 400)
                           THEN @ \cup {label} ELSE @]
    ELSE [st EXCEPT !.alerts = @ \cup {label}]

\* has_closed_message_already_been_sent(): whether the closed-state file
\* exists (flag)
has_closed_message_already_been_sent(flag) == flag

\* set_closed_message_sent(): the file exists afterwards
set_closed_message_sent(flag) == TRUE

\* A variant that leaves the closed-state file in place.
clear_closed_message_state_kept(flag) == flag

\* clear_closed_message_state(): the file does not exist afterwards
clear_closed_message_state(flag) == FALSE

\* A variant that appends the song info to every hall that has a text.
append_song_info_each(thorne_text, moulton_text, SONG_INFO) ==
    [thorne_text |-> IF SONG_INFO > 0 /\ thorne_text > 0
                     THEN thorne_text + SONG_INFO ELSE thorne_text,
     moulton_text |-> IF SONG_INFO > 0 /\ moulton_text > 0
                      THEN moulton_text + SONG_INFO ELSE moulton_text]

\* Lines 607-619: the texts' lengths after `if SONG_INFO:`; SONG_INFO is the
\* song info's length.
append_song_info(thorne_text, moulton_text, SONG_INFO) ==
    IF SONG_INFO = 0
    THEN [thorne_text |-> thorne_text, moulton_text |-> moulton_text]
    ELSE IF thorne_text > 0 /\ moulton_text > 0
    THEN [thorne_text |-> thorne_text, moulton_text |-> moulton_text + SONG_INFO]
    ELSE [thorne_text |-> IF thorne_text > 0
                          THEN thorne_text + SONG_INFO ELSE thorne_text,
          moulton_text |-> IF moulton_text > 0
                           THEN moulton_text + SONG_INFO ELSE moulton_text]

\* A run that has done nothing yet.
Started(world, flag) ==
    [op |-> "run", world |-> world, flag_before |-> flag,
     raised |-> None,           \* the exception that ended the run, if any
     texts |-> FALSE,           \* whether both texts were built
     thorne_text |-> 0,         \* the final texts' lengths
     moulton_text |-> 0,
     thorne_menu_text |-> 0,    \* the texts' lengths before the song info
     moulton_menu_text |-> 0,
     thorne_requested |-> None, \* the meal of the request sent to the menu API
     moulton_requested |-> None,
     thorne_header |-> None,    \* the meal in the header of the hall's text
     moulton_header |-> None,
     SONG_INFO |-> [len |-> 0, caught |-> None],
     sent |-> << >>,            \* the texts handed to send_message, in order
     alerts |-> {},             \* the halls reported as too long
     failed |-> {}]             \* the halls logged as failed to send

\* parse_response(xml) if xml else None
menu_of(xml) ==
    IF xml.none THEN MenuNone
    ELSE driver_parse_response(
            xml.content,
            CHOOSE order \in SetOrders(course_set(xml.content.records, "Uncategorized")) :
                TRUE).menu

\* The instants at which a run reads the clock: in request(THORNE), in
\* request(MOULTON), in stringify(THORNE, ...) and in stringify(MOULTON, ...).
\* A run that reads the same instant t every time:
AllAt(t) == [i \in 1 .. 4 |-> t]

\* The meal of the request that request(location) builds at the instant t.
requested_meal(location, t) ==
    driver_build_request(location, t, t.hour, strftime_a(t.date)).request[1].meal

\* The whole block, its clock reads being reads, started with the
\* closed-state file present or not (flag): the file's presence afterwards,
\* and what the run did.
main(world, flag, reads) ==
    LET start == [Started(world, flag) EXCEPT
                    !.thorne_requested = requested_meal(THORNE, reads[1])]
        thorne_xml == request(world.thorne.net, world.thorne.content)
        asked == [start EXCEPT
                    !.moulton_requested = requested_meal(MOULTON, reads[2])]
        moulton_xml == request(world.moulton.net, world.moulton.content)
        thorne_str == driver_stringify(THORNE, menu_of(thorne_xml),
                                       reads[3].hour, strftime_a(reads[3].date)).text
        moulton_str == driver_stringify(MOULTON, menu_of(moulton_xml),
                                        reads[4].hour, strftime_a(reads[4].date)).text
        thorne_text == thorne_str.len
        moulton_text == moulton_str.len
        built == [asked EXCEPT !.texts = TRUE,
                               !.thorne_menu_text = thorne_text,
                               !.moulton_menu_text = moulton_text,
                               !.thorne_text = thorne_text,
                               !.moulton_text = moulton_text,
                               !.thorne_header = thorne_str.meal,
                               !.moulton_header = moulton_str.meal]
    IN  IF thorne_xml.raised # None
        THEN [closed_state_file |-> flag,
              run |-> [start EXCEPT !.raised = thorne_xml.raised]]
        ELSE IF moulton_xml.raised # None
        THEN [closed_state_file |-> flag,
              run |-> [asked EXCEPT !.raised = moulton_xml.raised]]
        ELSE IF thorne_text = 0 /\ moulton_text = 0
        THEN IF ~has_closed_message_already_been_sent(flag)
             THEN LET response == send_message(world.chat[1])
                      told == [built EXCEPT
                                !.sent = << [label |-> "closed",
                                             len |-> CLOSED_MESSAGE_LEN,
                                             status_code |-> response.status_code] >>,
                                !.raised = response.raised]
                  IN  [closed_state_file |-> IF response.raised # None THEN flag
                                             ELSE set_closed_message_sent(flag),
                       run |-> told]
             ELSE [closed_state_file |-> flag, run |-> built]
        ELSE LET SONG_INFO == song_info(world)
                 final == append_song_info(thorne_text, moulton_text, SONG_INFO.len)
                 final_thorne == final.thorne_text
                 final_moulton == final.moulton_text
                 appended == [built EXCEPT !.SONG_INFO = SONG_INFO,
                                           !.thorne_text = final_thorne,
                                           !.moulton_text = final_moulton]
             IN  [closed_state_file |-> clear_closed_message_state(flag),
                  run |-> post(post(appended, final_thorne, "Thorne", world),
                               final_moulton, "Moulton", world)]

\* The services behave in any of the ways of Worlds; the closed-state file
\* may be there from an earlier run.
InitRun ==
    /\ now = [date |-> 0, hour |-> 12]
    /\ minute = 0
    /\ ret = NoCall
    /\ prev = NoCall
    /\ arg \in Worlds
    /\ closed_state_file \in BOOLEAN
    /\ run = NoRun
    /\ poll = NoPoll

\* cron runs the script.
RunScript ==
    LET after == main(arg, closed_state_file, AllAt(now))
    IN  /\ closed_state_file' = after.closed_state_file
        /\ run' = after.run
        /\ UNCHANGED <<now, ret, minute, prev, arg, poll>>

NextRun == RunScript

SpecRun == InitRun /\ [][NextRun]_vars

\* The services over a sequence of runs: the menu service fails, answers 500
\* or answers a short menu; the now-playing service answers 500.
StreakWorlds ==
    { world \in Worlds :
        /\ world.thorne.content \in {ErrorPayload, OneItem(4)}
        /\ world.thorne.net = Answers(200) => world.thorne.content = OneItem(4)
        /\ world.moulton.content \in {ErrorPayload, OneItem(4)}
        /\ world.moulton.net = Answers(200) => world.moulton.content = OneItem(4)
        /\ world.spins = [net |-> Answers(500), body |-> NoSpin]
        /\ world.playlists = [net |-> Answers(500), body |-> NoPlaylist]
        /\ world.personas = Answers(500) }

InitRuns ==
    /\ now = [date |-> 0, hour |-> 12]
    /\ minute = 0
    /\ ret = NoCall
    /\ prev = NoRun
    /\ arg = NoArg
    /\ closed_state_file \in BOOLEAN
    /\ run = NoRun
    /\ poll = NoPoll

\* cron runs the script again; prev keeps what the run before did.
ScheduledRun ==
    \E world \in StreakWorlds :
        LET after == main(world, closed_state_file, AllAt(now))
        IN  /\ closed_state_file' = after.closed_state_file
            /\ run' = after.run
            /\ prev' = run
            /\ UNCHANGED <<now, ret, minute, arg, poll>>

NextRuns == ScheduledRun

SpecRuns == InitRuns /\ [][NextRuns]_vars

\* The services when the clock is followed through a run: each hall has a
\* short menu or none, the now-playing service answers 500, the chat service
\* answers 202.
ClockWorlds ==
    { world \in Worlds :
        /\ world.thorne \in {[net |-> Answers(200), content |-> OneItem(4)],
                             [net |-> Answers(500), content |-> ErrorPayload]}
        /\ world.moulton \in {[net |-> Answers(200), content |-> OneItem(4)],
                              [net |-> Answers(500), content |-> ErrorPayload]}
        /\ world.spins = [net |-> Answers(500), body |-> NoSpin]
        /\ world.playlists = [net |-> Answers(500), body |-> NoPlaylist]
        /\ world.personas = Answers(500)
        /\ world.chat = [i \in 1 .. 2 |-> Answers(202)] }

\* A run can start at any hour of any day of the week.
InitRunClock ==
    /\ now \in [date : 0 .. 6, hour : Hours]
    /\ minute = 0
    /\ ret = NoCall
    /\ prev = NoCall
    /\ arg \in ClockWorlds
    /\ closed_state_file \in BOOLEAN
    /\ run = NoRun
    /\ poll = NoPoll

\* cron runs the script; the hour may turn once while it runs, after the
\* first `before` of its clock reads.
RunAcrossHour ==
    \E before \in 0 .. 4 :
        LET reads == [i \in 1 .. 4 |-> IF i <= before THEN now ELSE NextHour(now)]
            after == main(arg, closed_state_file, reads)
        IN  /\ NextHour(now).date <= MaxDate
            /\ closed_state_file' = after.closed_state_file
            /\ run' = after.run
            /\ now' = reads[4]
            /\ UNCHANGED <<ret, minute, prev, arg, poll>>

NextRunClock == RunAcrossHour

SpecRunClock == InitRunClock /\ [][NextRunClock]_vars

----------------------------------------------------------------------------
(* poll_reactions.py: poll_message_for_likes, from its first statement on. *)

\* The largest number of likes on the watched message.
MaxLikes == 5

\* What one `requests.get` of the loop yields: an exception, a status other
\* than 200, a 200 response without the watched message, or one with it and
\* its number of likes.
PollOutcomes ==
    { [kind |-> k, likes |-> 0] : k \in {"RequestException", "status", "not found"} }
    \cup { [kind |-> "found", likes |-> n] : n \in 0 .. MaxLikes }

\* `if current_like_count > last_like_count` (line 73)
rose(current_like_count, last_like_count) ==
    current_like_count > last_like_count

\* The function has been called and has set last_like_count = 0 (line 55).
Entered ==
    [op |-> "entered", last_like_count |-> 0,
     fetched |-> FALSE, current |-> 0,      \* this iteration's count, if fetched
     had_previous |-> FALSE, previous |-> 0, \* the count fetched before that
     called |-> << >>]                      \* the callback's counts, if called

\* One iteration of `while True` (lines 61-84) from the state p.
iteration(p, outcome) ==
    LET had == p.fetched \/ p.had_previous
        before == IF p.fetched THEN p.current ELSE p.previous
        seen == [p EXCEPT !.op = "poll", !.had_previous = had, !.previous = before,
                          !.fetched = FALSE, !.current = 0, !.called = << >>]
    IN  IF outcome.kind # "found" THEN seen
        ELSE LET current_like_count == outcome.likes
             IN  IF rose(current_like_count, p.last_like_count)
                 THEN [seen EXCEPT !.fetched = TRUE, !.current = current_like_count,
                                   !.called = <<current_like_count, p.last_like_count>>,
                                   !.last_like_count = current_like_count]
                 ELSE [seen EXCEPT !.fetched = TRUE, !.current = current_like_count]

InitPoll ==
    /\ now = [date |-> 0, hour |-> 0]
    /\ minute = 0
    /\ ret = NoCall
    /\ prev = NoCall
    /\ arg = NoArg
    /\ closed_state_file = FALSE
    /\ run = NoRun
    /\ poll = Entered

PollOnce ==
    \E outcome \in PollOutcomes :
        /\ poll' = iteration(poll, outcome)
        /\ UNCHANGED <<now, ret, minute, prev, arg, closed_state_file, run>>

NextPoll == PollOnce

SpecPoll == InitPoll /\ [][NextPoll]_vars

----------------------------------------------------------------------------
(* Properties *)

Weekend == {"sat", "sun"}

\* ret is the result of a resolver call (either generation).
IsResolve == ret.op \in {"get_upcoming_meal", "driver_get_upcoming_meal"}

\* The first hour after dinner ends, as the published schedule states it.
LateNight(location) == IF location = MOULTON THEN 19 ELSE 20

\* The rule list get_upcoming_meal selected for the call recorded in ret.
SelectedRules == schedule[ret.location][ret.day \notin Weekend]

C2_HourChecksDisjoint ==
    ret.op = "get_upcoming_meal" =>
        LET rules == SelectedRules
            n == Len(rules)
        IN  /\ Cardinality({i \in 1 .. n : HourCheck(rules[i], ret.hour)}) = 1
            /\ \A p \in Permutations(1 .. n) :
                    Evaluate([i \in 1 .. n |-> rules[p[i]]], ret.hour, ret.day).value
                        = ret.value

C2_Witness ==
    /\ ret.op = "get_upcoming_meal"
    /\ ret.location = THORNE /\ ret.day = "wed" /\ ret.hour = 12
    /\ ret.rule = 3 /\ ret.value = <<LUNCH>>

\* C3: Moulton, Monday to Friday: hour 9 is breakfast and hour 10 lunch, hour
\* 13 is lunch and hour 14 dinner, hour 18 is dinner and hour 19 is the first
\* meal of the next day (breakfast, or brunch on a Friday), not dinner.
C3_MoultonWeekdayBoundaries ==
    (IsResolve /\ ret.location = MOULTON /\ ret.day \notin Weekend) =>
        /\ ret.hour = 9 => ret.value = <<BREAKFAST>>
        /\ ret.hour = 10 => ret.value = <<LUNCH>>
        /\ ret.hour = 13 => ret.value = <<LUNCH>>
        /\ ret.hour = 14 => ret.value = <<DINNER>>
        /\ ret.hour = 18 => ret.value = <<DINNER>>
        /\ ret.hour = 19 =>
                ret.value = IF ret.day = "fri" THEN <<BRUNCH>> ELSE <<BREAKFAST>>

C3_Witness ==
    /\ ret.op = "get_upcoming_meal"
    /\ ret.location = MOULTON /\ ret.day = "fri" /\ ret.hour = 19
    /\ ret.value = <<BRUNCH>>

\* C4: Moulton, hour 20: a Friday resolves to (brunch, day offset 1), a Monday
\* to (breakfast, day offset 1).
C4_FridayNight ==
    (IsResolve /\ ret.location = MOULTON /\ ret.hour = 20) =>
        /\ ret.day = "fri" => ret.value = <<BRUNCH, 1>>
        /\ ret.day = "mon" => ret.value = <<BREAKFAST, 1>>

\* C5: Moulton, hour 20: a Sunday resolves to (breakfast, day offset 1), a
\* Saturday to (brunch, day offset 1).
C5_SundayNight ==
    (IsResolve /\ ret.location = MOULTON /\ ret.hour = 20) =>
        /\ ret.day = "sun" => ret.value = <<BREAKFAST, 1>>
        /\ ret.day = "sat" => ret.value = <<BRUNCH, 1>>

\* C6: Moulton Wednesday 12 -> (lunch, 0); Thorne Saturday 9 -> (brunch, 0);
\* Moulton Friday 21 -> (brunch, 1); Thorne Sunday 22 -> (breakfast, 1).
C6_Scenarios ==
    IsResolve =>
        /\ (ret.location = MOULTON /\ ret.day = "wed" /\ ret.hour = 12)
                => ret.value = <<LUNCH, 0>>
        /\ (ret.location = THORNE /\ ret.day = "sat" /\ ret.hour = 9)
                => ret.value = <<BRUNCH, 0>>
        /\ (ret.location = MOULTON /\ ret.day = "fri" /\ ret.hour = 21)
                => ret.value = <<BRUNCH, 1>>
        /\ (ret.location = THORNE /\ ret.day = "sun" /\ ret.hour = 22)
                => ret.value = <<BREAKFAST, 1>>

\* C7: every resolver result carries a day offset in {0, 1}, and the offset
\* is 1 exactly when the hour is in the late-night window (hour >= 19 for
\* Moulton, hour >= 20 for Thorne).
C7_OffsetIsLateNight ==
    IsResolve =>
        /\ Len(ret.value) = 2
        /\ ret.value[2] \in {0, 1}
        /\ ret.value[2] = 1 <=> ret.hour >= LateNight(ret.location)

\* C8: build_request returns a request whose unit is the location id, whose
\* meal is the resolved meal name and whose date is the current date plus the
\* resolved day offset: the next day in the late-night window, today otherwise.
C8_RequestDate ==
    ret.op \in {"build_request", "driver_build_request"} =>
        /\ ret.raised = None
        /\ Len(ret.request) = 1
        /\ ret.request[1].unit = ret.location
        /\ ret.request[1].meal = ret.resolved[1]
        /\ ret.request[1].date =
                ret.today + (IF ret.hour >= LateNight(ret.location) THEN 1 ELSE 0)

\* C9: Thorne, Monday to Friday: hours 0-9 are breakfast with offset 0, hours
\* 10-13 lunch, hours 14-19 dinner, hours 20-23 breakfast of the next day, or
\* brunch of the next day on a Friday.
C9_ThorneWeekday ==
    (IsResolve /\ ret.location = THORNE /\ ret.day \notin Weekend) =>
        /\ ret.hour \in 0 .. 9 => ret.value = <<BREAKFAST, 0>>
        /\ ret.hour \in 10 .. 13 => ret.value[1] = LUNCH
        /\ ret.hour \in 14 .. 19 => ret.value[1] = DINNER
        /\ ret.hour \in 20 .. 23 =>
                ret.value = IF ret.day = "fri" THEN <<BRUNCH, 1>> ELSE <<BREAKFAST, 1>>

\* C10: Thorne, Saturday and Sunday: hours 0-13 are brunch with offset 0,
\* hours 14-19 dinner, hours 20-23 brunch of the next day, or breakfast of the
\* next day on a Sunday.
C10_ThorneWeekend ==
    (IsResolve /\ ret.location = THORNE /\ ret.day \in Weekend) =>
        /\ ret.hour \in 0 .. 13 => ret.value = <<BRUNCH, 0>>
        /\ ret.hour \in 14 .. 19 => ret.value[1] = DINNER
        /\ ret.hour \in 20 .. 23 =>
                ret.value = IF ret.day = "sun" THEN <<BREAKFAST, 1>> ELSE <<BRUNCH, 1>>

\* The time t rounded up to a whole hour.
RoundUp(t) ==
    IF t.minute = 0 THEN [date |-> t.date, hour |-> t.hour]
    ELSE NextHour([date |-> t.date, hour |-> t.hour])

\* C11: the resolver's outcome is a function of (location, hour, day of week):
\* two calls with the same location, hour and day return the same value,
\* whether made at the same instant or at different minutes of the hour, and
\* a call leaves the clock, the only state it reads, as it was.
SameInputsSameResult ==
    (IsResolve /\ prev.op = ret.op /\ prev.location = ret.location
        /\ prev.hour = ret.hour /\ prev.day = ret.day) =>
        /\ prev.value = ret.value
        /\ prev.raised = ret.raised
        /\ prev.warned = ret.warned

NoRuleMatched ==
    \/ ret.op = "get_upcoming_meal" /\ ret.rule = 0
    \/ ret.op = "driver_get_upcoming_meal" /\ ret.line = 213

C20_RoundsUp ==
    (IsResolve /\ ret.location \in Location /\ ret.at.minute # 0
        /\ RoundUp(ret.at).date <= MaxDate) =>
        ret.value =
            IF ret.op = "get_upcoming_meal"
            THEN get_upcoming_meal(ret.location, RoundUp(ret.at)).value
            ELSE driver_get_upcoming_meal(ret.location, RoundUp(ret.at).hour,
                                          strftime_a(RoundUp(ret.at).date)).value

\* C15: a call of make_post_request or make_get_request makes at most 3 HTTP
\* attempts, every attempt but the last raised a request exception, and the
\* call ends after the last attempt: with the response that attempt returned,
\* or, when the third attempt raised too, with a failure.
C15_AtMostThreeAttempts ==
    ret.op \in {"make_post_request", "make_get_request"} =>
        /\ ret.attempts \in 1 .. 3
        /\ \A k \in 1 .. (ret.attempts - 1) : ret.net[k] = NetError
        /\ \/ /\ ret.raised = None
              /\ ret.net[ret.attempts] # NetError
              /\ ret.status_code = ret.net[ret.attempts]
           \/ /\ ret.raised # None
              /\ ret.attempts = 3
              /\ ret.net[3] = NetError

C15_Witness ==
    /\ ret.op = "make_post_request"
    /\ ret.net[1] = NetError /\ ret.net[2] = NetError /\ ret.net[3] = NetError
    /\ ret.attempts = 3
    /\ ret.raised = "RetryError"

\* The menu has a real item: one that is neither None, empty nor whitespace.
HasRealItem(menu) ==
    /\ ~menu.none
    /\ \E i \in 1 .. Len(menu.entries) :
            \E j \in 1 .. Len(menu.entries[i].items) : Real(menu.entries[i].items[j])

\* C16: stringify returns the empty string for every menu without a real item
\* (None, no categories, or only None, empty and whitespace-only items), and
\* returns a non-empty string only for a menu with a real item.
C16_EmptyWithoutRealItem ==
    ret.op \in {"stringify", "driver_stringify"} =>
        /\ ~HasRealItem(ret.menu) => (ret.raised = None /\ ret.text.len = 0)
        /\ (ret.raised = None /\ ret.text.len > 0) => HasRealItem(ret.menu)

IsParse == ret.op \in {"parse_response", "driver_parse_response"}

\* The positions of the payload's records whose course is the category.
RecordsOf(category) ==
    { i \in 1 .. Len(ret.content.records) :
        course_text(ret.content.records[i], ret.default) = category.name }

\* The j-th position of a set of positions, in document order.
Nth(positions, j) ==
    CHOOSE i \in positions : Cardinality({k \in positions : k < i}) = j - 1

\* C17: parse_response returns None, without raising, whenever the payload is
\* not well-formed XML or holds an <error> element; otherwise every returned
\* category maps to the (cleaned) item names of its records, in the order the
\* records appear in the payload.
C17_ParseResponse ==
    IsParse =>
        /\ ret.raised = None
        /\ (~ret.content.wellformed \/ ret.content.error) => ret.menu = MenuNone
        /\ (ret.content.wellformed /\ ~ret.content.error /\ ~ret.menu.none) =>
                \A e \in 1 .. Len(ret.menu.entries) :
                    LET entry == ret.menu.entries[e]
                        positions == RecordsOf(entry.category)
                    IN  /\ Len(entry.items) = Cardinality(positions)
                        /\ positions # {}
                        /\ \A j \in 1 .. Len(entry.items) :
                                entry.items[j]
                                    = cleaned(ret.content.records[Nth(positions, j)].item)

\* A payload with two different items of one course was parsed into a menu.
C17_Witness ==
    /\ IsParse
    /\ ~ret.menu.none
    /\ \E e \in 1 .. Len(ret.menu.entries) :
            /\ Len(ret.menu.entries[e].items) >= 2
            /\ ret.menu.entries[e].items[1] # ret.menu.entries[e].items[2]

IsRun == run.op = "run"

\* The run took the branch of lines 562-632: the texts were built and not
\* both are empty.
HasData(r) == r.texts /\ (r.thorne_menu_text > 0 \/ r.moulton_menu_text > 0)

\* Both halls produced empty text.
BothEmpty(r) == r.texts /\ r.thorne_menu_text = 0 /\ r.moulton_menu_text = 0

\* The text with the label was handed to send_message.
Posted(r, label) == \E i \in 1 .. Len(r.sent) : r.sent[i].label = label

HallText(r, label) == IF label = "Thorne" THEN r.thorne_text ELSE r.moulton_text

\* C12: no text of 1000 or more characters is handed to send_message; a
\* hall's final text is posted only if it is shorter than 1000, and one that
\* is not is reported (critical log entry and printed line) instead.
C12_NoOversizedText ==
    IsRun =>
        /\ \A i \in 1 .. Len(run.sent) : run.sent[i].len < MAX_TEXT
        /\ HasData(run) =>
            \A label \in {"Thorne", "Moulton"} :
                /\ Posted(run, label) => HallText(run, label) < MAX_TEXT
                /\ HallText(run, label) >= MAX_TEXT =>
                        (~Posted(run, label) /\ label \in run.alerts)

\* C13: over a sequence of runs, the closed message is sent only in the first
\* run of a streak of runs in which both halls produced empty text.
C13_ClosedOncePerStreak ==
    (IsRun /\ prev.op = "run" /\ BothEmpty(prev) /\ BothEmpty(run))
        => ~Posted(run, "closed")

\* C14: when every attempt of a menu, now-playing or chat call fails with a
\* network error, the calling function returns None and the run goes on: no
\* run ends with an uncaught exception.
C14_RunContinues == IsRun => run.raised = None

\* The now-playing payload is malformed or incomplete, or no playlist is
\* available.
NowPlayingUnusable(world) ==
    \/ /\ world.spins.net = Answers(200)
       /\ world.spins.body.kind
            \in {"invalid json", "no items", "no song", "bad start", "no start"}
    \/ world.playlists.net # Answers(200)
    \/ world.playlists.body.kind = "no items"

\* C18: a malformed or incomplete now-playing payload or an unavailable
\* playlist is treated as no data: the run does not abort, the song info is
\* empty, and every hall with a non-empty text below 1000 characters is posted.
C18_NowPlayingNoData ==
    (IsRun /\ HasData(run) /\ NowPlayingUnusable(run.world)) =>
        /\ run.raised = None
        /\ run.SONG_INFO.len = 0
        /\ \A label \in {"Thorne", "Moulton"} :
                (HallText(run, label) > 0 /\ HallText(run, label) < MAX_TEXT)
                    => Posted(run, label)

\* C22: the table-driven resolver of models.py and the nested-conditional
\* resolver of driver.py resolve the same meal for every location, every hour
\* 0..23 and every day of the week.
C22_ResolversAgree ==
    /\ ret.op = "get_upcoming_meal" =>
            ret.value = driver_get_upcoming_meal(ret.location, ret.hour, ret.day).value
    /\ ret.op = "driver_get_upcoming_meal" =>
            \A t \in [date : 0 .. 6, hour : Hours] :
                (t.hour = ret.hour /\ strftime_a(t.date) = ret.day)
                    => ret.value = get_upcoming_meal(ret.location, t).value

\* C21: within one run, the meal in the header of a hall's text equals the
\* meal requested from the menu API for that hall, whenever the run starts
\* and however the clock advances while it runs.
C21_HeaderIsRequestedMeal ==
    (IsRun /\ run.texts) =>
        /\ run.thorne_menu_text > 0 => run.thorne_header = run.thorne_requested
        /\ run.moulton_menu_text > 0 => run.moulton_header = run.moulton_requested

\* The closed notification was delivered: the chat service accepted it (202).
ClosedDelivered(r) ==
    /\ r.raised = None
    /\ \E i \in 1 .. Len(r.sent) :
            r.sent[i].label = "closed" /\ r.sent[i].status_code = 202

\* C23: the closed-state flag is set only in a run in which the closed
\* notification was delivered to the chat service; when send_message fails
\* for the closed message the flag stays unset.
C23_FlagOnlyWhenDelivered ==
    (IsRun /\ ~run.flag_before /\ closed_state_file) => ClosedDelivered(run)

\* C24: in a run where the song info is not empty, it is appended to exactly
\* one hall's text: Moulton's when both halls have menu data, else that of
\* the one hall that has; a hall with empty text never receives it.
C24_SongInfoOnOneHall ==
    IsRun =>
        LET thorne_added == run.thorne_text - run.thorne_menu_text
            moulton_added == run.moulton_text - run.moulton_menu_text
        IN  /\ run.thorne_menu_text = 0 => run.thorne_text = 0
            /\ run.moulton_menu_text = 0 => run.moulton_text = 0
            /\ run.SONG_INFO.len > 0 =>
                /\ <<thorne_added, moulton_added>>
                        \in {<<run.SONG_INFO.len, 0>>, <<0, run.SONG_INFO.len>>}
                /\ (run.thorne_menu_text > 0 /\ run.moulton_menu_text > 0)
                        => moulton_added = run.SONG_INFO.len
            /\ run.SONG_INFO.len = 0 => (thorne_added = 0 /\ moulton_added = 0)

\* Both halls had menu data and the song info went to Moulton's text.
C24_Witness ==
    /\ IsRun
    /\ run.SONG_INFO.len > 0
    /\ run.thorne_menu_text > 0
    /\ run.moulton_menu_text > 0
    /\ run.moulton_text = run.moulton_menu_text + run.SONG_INFO.len

\* C25: the song info is non-empty only when a current spin and a current
\* playlist are both available, the playlist is not automated and the spin's
\* elapsed time is at most 900 seconds; in every other case it is empty.
C25_SongInfoOnlyWhenFresh ==
    (IsRun /\ run.SONG_INFO.len > 0) =>
        /\ run.world.spins.net = Answers(200)
        /\ run.world.spins.body.kind = "spin"
        /\ run.world.spins.body.elapsed <= 900
        /\ run.world.playlists.net = Answers(200)
        /\ run.world.playlists.body.kind = "playlist"
        /\ ~run.world.playlists.body.automation

\* A spin of exactly 900 seconds on a live playlist gave song info.
C25_Witness ==
    /\ IsRun
    /\ run.SONG_INFO.len > 0
    /\ run.world.spins.body.elapsed = 900

\* The labels of the texts handed to send_message, in order.
SentLabels(r) == [i \in 1 .. Len(r.sent) |-> r.sent[i].label]

\* C26: a run posts either at most one closed message and no menu, or at most
\* one Thorne message followed by at most one Moulton message and no closed
\* message; the closed flag is cleared before any menu message is posted.
C26_ClosedOrMenus ==
    IsRun =>
        /\ SentLabels(run) \in { << >>, <<"closed">>, <<"Thorne">>, <<"Moulton">>,
                                 <<"Thorne", "Moulton">> }
        /\ (Posted(run, "Thorne") \/ Posted(run, "Moulton")) => ~closed_state_file

\* A run that found the closed-state file posted both halls' menus.
C26_Witness ==
    /\ IsRun
    /\ run.flag_before
    /\ SentLabels(run) = <<"Thorne", "Moulton">>

\* C27: for every pair of consecutive successful polls in which the watched
\* message's like count rose, the callback is invoked with the new and the
\* previous count; it is never invoked when the fetched count did not rise.
C27_CallbackOnEveryRise ==
    (poll.op = "poll" /\ poll.fetched /\ poll.had_previous) =>
        IF poll.current > poll.previous
        THEN poll.called = <<poll.current, poll.previous>>
        ELSE poll.called = << >>

====
